---- MODULE Spec2Model ----
(***************************************************************************)
(* Selection state machine and date predicate engine of the date picker   *)
(* (src/src/datetime-picker.tsx, src/src/utils.ts).                        *)
(*                                                                         *)
(* Time.  An instant is a natural number of ticks.  A day holds four       *)
(* ticks: 00:00:00.000 (start of day), 00:00:00.999, 23:59:59.000 and      *)
(* 23:59:59.999 (end of day).  Two ticks make one second, so unix()        *)
(* truncates the millisecond part.  All dates live in one time zone.       *)
(*                                                                         *)
(* Calendars.  The selection machine is modelled for the calendar systems  *)
(* 'gregory' and 'jalali', which take the same branches of the code        *)
(* (calendar !== 'islamic').  The islamic branches of removeTime and       *)
(* dateToUnix depend on the conversions of external packages and are not   *)
(* part of this model.                                                     *)
(*                                                                         *)
(* Props.  minDate and maxDate are not supplied to the picker; onChange is *)
(* supplied; the props of the other modes are absent.                      *)
(*                                                                         *)
(* Utils.  The pure functions of utils.ts have specifications of their    *)
(* own, whose initial states are the arguments of one call: SpecDisabled   *)
(* (isDateDisabled), SpecGrid (getWeekdays, getDaysInMonth, getMonthDays,  *)
(* for gregory, jalali and islamic), SpecMonth (isMonthDisabled) and       *)
(* SpecDayjs (getDayjs).  SpecShared runs getWeekdays and getMonthsArray   *)
(* for two pickers that share the locale of the date libraries.            *)
(* SpecYears runs getYearRange and SpecPick the removeTime calls of a      *)
(* range pick on the values they are handed.                               *)
(*                                                                         *)
(* Renders.  SpecMount follows the effects of the first render with the    *)
(* month and year props; SpecRender follows a mounted picker whose caller  *)
(* replaces the calendar, onChange and timeZone props between picks.       *)
(***************************************************************************)
EXTENDS Integers, Sequences, FiniteSets, TLC

\* ------------------------------------------------------------------ bounds
MaxDay == 2
MaxLen == 3
MaxSpan == 2
MaxYear == 1

\* ------------------------------------------------------------- time model
Undef == -1

TicksPerSec == Cardinality({"000", "999"})
TicksPerDay == Cardinality({"00:00:00", "23:59:59"}) * TicksPerSec

Days == 0..MaxDay
Instants == 0..((MaxDay + 1) * TicksPerDay - 1)

At(day, tod) == day * TicksPerDay + tod

\* the dates of the picked cells: at 00:00:00.000 or 00:00:00.999
CellDates == {At(d, t) : d \in Days, t \in {0, 1}}

\* the dates a caller passes: at 00:00:00.999 (dates at 00:00:00.000 and at
\* 23:59:59.999 arrive by feeding a notification back)
PropDates == {At(d, 1) : d \in Days}

DayOf(t) == t \div TicksPerDay
TodOf(t) == t % TicksPerDay

\* dayjs(date).startOf('day') / .endOf('day')
startOf(t) == DayOf(t) * TicksPerDay
endOf(t) == DayOf(t) * TicksPerDay + (TicksPerDay - 1)

\* dayjs(date).unix(): whole seconds, the millisecond part dropped
unix(t) == t \div TicksPerSec

diffInclusive(a, b) ==
  IF a >= b THEN (a - b) \div TicksPerDay + 1 ELSE 0 - ((b - a) \div TicksPerDay)

\* a.diff(b, 'day'): whole days, truncated toward zero
diff(a, b) ==
  IF a >= b THEN (a - b) \div TicksPerDay ELSE 0 - ((b - a) \div TicksPerDay)

\* JavaScript truthiness of an optional number (undefined and 0 are falsy)
Truthy(n) == n # Undef /\ n # 0

\* ------------------------------------------------------------ utils.ts
getStartOfDay(date) == startOf(date)

getEndOfDay(date) == endOf(date)

\* undefined input: getDayjs substitutes new Date(), read at the call
dateToUnix(date, now) == IF date = Undef THEN unix(now) ELSE unix(date)

removeTimeKeepsTime(date) == date

removeTime(date) == IF date = Undef THEN Undef ELSE startOf(date)

\* format(DATE_FORMAT) of both sides compared; a missing side is never equal
areDatesOnSameDay(a, b) ==
  IF a = Undef \/ b = Undef THEN FALSE ELSE DayOf(a) = DayOf(b)

\* a date rule (enabledDates / disabledDates): not supplied ("none"), an
\* array of dates ("list", items = its elements) or a predicate ("fn",
\* items = the dates it returns true for)
NoRule == [kind |-> "none", items |-> {}]

\* rule.some((d) => areDatesOnSameDay(date, d, calendar)) or rule(date)
matchesRule(rule, date) ==
  IF rule.kind = "list"
  THEN \E d \in rule.items : areDatesOnSameDay(date, d)
  ELSE date \in rule.items

isDateDisabledByDisabledFirst(date, minDate, maxDate, enabledDates, disabledDates) ==
  IF minDate # Undef /\ date < startOf(minDate) THEN TRUE
  ELSE IF maxDate # Undef /\ date > endOf(maxDate) THEN TRUE
  ELSE IF disabledDates.kind # "none" THEN matchesRule(disabledDates, date)
  ELSE IF enabledDates.kind # "none" THEN ~matchesRule(enabledDates, date)
  ELSE FALSE

isDateDisabledByRulesFirst(date, minDate, maxDate, enabledDates, disabledDates) ==
  IF enabledDates.kind # "none" THEN ~matchesRule(enabledDates, date)
  ELSE IF disabledDates.kind # "none" THEN matchesRule(disabledDates, date)
  ELSE IF minDate # Undef /\ date < startOf(minDate) THEN TRUE
  ELSE IF maxDate # Undef /\ date > endOf(maxDate) THEN TRUE
  ELSE FALSE

isDateDisabled(date, minDate, maxDate, enabledDates, disabledDates) ==
  IF minDate # Undef /\ date < startOf(minDate) THEN TRUE
  ELSE IF maxDate # Undef /\ date > endOf(maxDate) THEN TRUE
  ELSE IF enabledDates.kind # "none" THEN ~matchesRule(enabledDates, date)
  ELSE IF disabledDates.kind # "none" THEN matchesRule(disabledDates, date)
  ELSE FALSE

\* ------------------------------------------------- picker props and state
VARIABLES
  mode,          \* prop mode: "single", "range" or "multiple"
  calendar,      \* prop calendar
  timePicker,    \* prop timePicker
  min,           \* prop min (range day count), Undef when not supplied
  max,           \* prop max (range day count or multiple count), Undef when not supplied
  date,          \* state.date
  startDate,     \* state.startDate
  endDate,       \* state.endDate
  dates,         \* state.dates
  currentDate,   \* state.currentDate
  selectedDate,  \* argument of the last onSelectDate call, Undef before it
  reported,      \* the change notification of the last onSelectDate call
  ddQuery,       \* arguments of an isDateDisabled call
  ddResult,      \* its result: [done, disabled], done = FALSE before the call
  engineCall,    \* name and arguments of a call of another utils function
  engineResult,  \* its result, NoResult-like [done |-> FALSE] before the call
  dayjsLocale,   \* the global locale of the dayjs library (dayjs.locale(l))
  umalquraLocale, \* the global locale of the umalqura library (umalqura.locale(l))
  onChange,      \* prop onChange: "none" when not supplied, else the callback
  timeZone,      \* prop timeZone, "none" when not supplied
  handler,       \* the memoized onSelectDate: the calendar and onChange it closed over
  invoked        \* what the last event of the render machine did with onChange

vars == << mode, calendar, timePicker, min, max, date, startDate, endDate,
           dates, currentDate, selectedDate, reported, ddQuery, ddResult,
           engineCall, engineResult, dayjsLocale, umalquraLocale,
           onChange, timeZone, handler, invoked >>

props == << mode, calendar, timePicker, min, max >>
renderVars == << onChange, timeZone, handler, invoked >>
engineVars == << engineCall, engineResult, dayjsLocale, umalquraLocale,
                renderVars >>
ddVars == << ddQuery, ddResult, engineVars >>
pickerVars == << props, date, startDate, endDate, dates, currentDate,
                 selectedDate, reported, ddQuery, ddResult, renderVars >>
utilVars == << ddQuery, ddResult, engineCall, engineResult, dayjsLocale,
              umalquraLocale >>

Modes == {"single", "range", "multiple"}
Calendars == {"gregory", "jalali"}
Counts == {Undef} \cup (0..MaxSpan)

\* no notification: onChange was not called
Silent ==
  [kind |-> "none", date |-> Undef, startDate |-> Undef, endDate |-> Undef,
   dates |-> << >>, datePressed |-> Undef, change |-> "none"]

SingleChange(d) == [Silent EXCEPT !.kind = "single", !.date = d]

RangeChange(s, e) ==
  [Silent EXCEPT !.kind = "range", !.startDate = s, !.endDate = e]

MultiChange(ds, pressed, ch) ==
  [Silent EXCEPT !.kind = "multiple", !.dates = ds, !.datePressed = pressed,
                 !.change = ch]

\* ------------------------------------- onSelectDate, range branch (pure part)
\* first classification of the pick: it moves the end (isStart = false)
movesEnd(selectedUnix, startUnix, endUnix) ==
  /\ selectedUnix # endUnix
  /\ selectedUnix >= startUnix
  /\ startUnix # endUnix

repicksStartUnguarded(start, selectedUnix, startUnix) ==
  selectedUnix = startUnix

\* else if (start && selectedUnix === startUnix): the anchor is picked again
repicksStart(start, selectedUnix, startUnix) ==
  start # Undef /\ selectedUnix = startUnix

spanUnchecked(numberOfDays, mn, mx) == FALSE

\* (max && numberOfDays > max) || (min && numberOfDays < min)
spanViolates(numberOfDays, mn, mx) ==
  \/ Truthy(mx) /\ numberOfDays > mx
  \/ Truthy(mn) /\ numberOfDays < mn

\* the notification of a range pick; now1 and now2 are the clock readings
\* taken by dateToUnix for a missing start and a missing end
rangeSelect(start0, end0, selected0, mn, mx, now1, now2) ==
  LET start == removeTime(start0)
      end0r == removeTime(end0)
      selected == removeTime(selected0)
      selectedUnix == dateToUnix(selected, now1)
      startUnix == dateToUnix(start, now1)
      endUnix == dateToUnix(end0r, now2)
      toEnd == movesEnd(selectedUnix, startUnix, endUnix)
      isStart1 == ~toEnd
      isReset1 == ~toEnd /\ repicksStart(start, selectedUnix, startUnix)
      both == start # Undef /\ end0r # Undef
      isStart2 ==
        IF both /\ startUnix = endUnix /\ selectedUnix > startUnix
        THEN FALSE ELSE isStart1
      end1 ==
        IF both /\ selectedUnix > startUnix /\ selectedUnix = endUnix
        THEN Undef ELSE end0r
      end2 ==
        IF start # Undef /\ end1 = Undef /\ selectedUnix < startUnix
        THEN start ELSE end1
      bounded == Truthy(mn) \/ Truthy(mx)
      viol1 ==
        /\ isStart2 /\ end2 # Undef /\ bounded
        /\ spanViolates(diff(end2, selected), mn, mx)
      end3 == IF viol1 THEN Undef ELSE end2
      check2 == ~isStart2 /\ start # Undef /\ bounded
      isReset2 == isReset1 \/ (check2 /\ selectedUnix = startUnix)
      viol2 ==
        /\ check2 /\ selectedUnix # startUnix
        /\ spanViolates(diff(selected, start), mn, mx)
      isStart3 == isStart2 \/ viol2
      end4 == IF viol2 THEN Undef ELSE end3
  IN  IF isReset2
      THEN RangeChange(Undef, Undef)
      ELSE RangeChange(
             IF isStart3 THEN selected ELSE start,
             IF ~isStart3 THEN getEndOfDay(selected)
             ELSE IF end4 # Undef THEN getEndOfDay(end4) ELSE Undef)

\* --------------------------------- onSelectDate, multiple branch (pure part)
\* safeDates.some((ed) => areDatesOnSameDay(ed, newDate, calendar))
someSameDay(safeDates, newDate) ==
  \E i \in 1..Len(safeDates) : areDatesOnSameDay(safeDates[i], newDate)

\* safeDates.filter((ed) => !areDatesOnSameDay(ed, newDate, calendar))
RECURSIVE filterOtherDays(_, _)
filterOtherDays(safeDates, newDate) ==
  IF safeDates = << >> THEN << >>
  ELSE IF areDatesOnSameDay(Head(safeDates), newDate)
       THEN filterOtherDays(Tail(safeDates), newDate)
       ELSE << Head(safeDates) >> \o filterOtherDays(Tail(safeDates), newDate)

\* the comparator (a, b) => (dayjs(a).isAfter(dayjs(b)) ? 1 : -1)
compareDates(a, b) == IF a > b THEN 1 ELSE 0 - 1

\* insertion of x into a sorted list: x goes behind every element the
\* comparator does not place after it
RECURSIVE insertDate(_, _)
insertDate(sorted, x) ==
  IF sorted = << >> THEN << x >>
  ELSE IF compareDates(Head(sorted), x) > 0
       THEN << x >> \o sorted
       ELSE << Head(sorted) >> \o insertDate(Tail(sorted), x)

RECURSIVE insertionSort(_)
insertionSort(list) ==
  IF list = << >> THEN << >>
  ELSE insertDate(insertionSort(SubSeq(list, 1, Len(list) - 1)), list[Len(list)])

sortDatesSkipped(list) == list

\* newDates.sort(comparator)
sortDates(list) == insertionSort(list)

\* if (max && newDates.length > max) return;
\* the max test letting one entry more through
maxBlocksOneLate(newDates, mx, exists) == Truthy(mx) /\ Len(newDates) > mx + 1

maxBlocks(newDates, mx, exists) == Truthy(mx) /\ Len(newDates) > mx

multipleSelect(safeDates, selected0, mx) ==
  LET newDate == startOf(selected0)
      exists == someSameDay(safeDates, newDate)
      newDates ==
        IF exists THEN filterOtherDays(safeDates, newDate)
        ELSE Append(safeDates, newDate)
  IN  IF maxBlocks(newDates, mx, exists)
      THEN Silent
      ELSE MultiChange(sortDates(newDates), newDate,
                       IF exists THEN "removed" ELSE "added")

\* ------------------------------------------------------------------ Init
NoQuery ==
  [date |-> 0, minDate |-> Undef, maxDate |-> Undef,
   enabledDates |-> NoRule, disabledDates |-> NoRule]

NoResult == [done |-> FALSE, disabled |-> FALSE]

\* the props a caller supplies; a prop another mode reads is not supplied
PropsOk ==
  /\ mode \in Modes
  /\ calendar \in Calendars
  /\ timePicker \in BOOLEAN
  /\ min \in Counts
  /\ max \in Counts
  /\ mode # "single" => timePicker = FALSE
  /\ mode # "range" => min = Undef
  /\ mode = "single" => max = Undef

\* no other utils call is in progress; the libraries keep their default locale
NoCall == [fn |-> "none"]
NotDone == [done |-> FALSE]
\* onChange is supplied and never replaced, timeZone is not supplied, the
\* handler is the one of the current render
NoInvocation ==
  [by |-> "none", callee |-> "none", calendar |-> "none",
   prop |-> "none", propCalendar |-> "none"]
RenderIdle ==
  /\ onChange = "f"
  /\ timeZone = "none"
  /\ handler = [calendar |-> calendar, onChange |-> "f"]
  /\ invoked = NoInvocation

EngineIdle ==
  /\ engineCall = NoCall
  /\ engineResult = NotDone
  /\ dayjsLocale = "en"
  /\ umalquraLocale = "en"
  /\ RenderIdle

\* mounted with no selection
Init ==
  /\ PropsOk
  /\ date = Undef
  /\ startDate = Undef
  /\ endDate = Undef
  /\ dates = << >>
  /\ currentDate = 0
  /\ selectedDate = Undef
  /\ reported = Silent
  /\ ddQuery = NoQuery
  /\ ddResult = NoResult
  /\ EngineIdle

\* ------------------------------------------------------------ onSelectDate
\* the single branch without getStartOfDay
onSelectDateSingleKeepsTime(selected) ==
  /\ mode = "single"
  /\ LET newDate == selected
     IN  /\ currentDate' = newDate
         /\ reported' = SingleChange(newDate)
  /\ selectedDate' = selected
  /\ UNCHANGED << props, date, startDate, endDate, dates, ddVars >>

onSelectDateSingle(selected) ==
  /\ mode = "single"
  /\ LET newDate == IF timePicker THEN selected ELSE getStartOfDay(selected)
     IN  /\ currentDate' = newDate
         /\ reported' = SingleChange(newDate)
  /\ selectedDate' = selected
  /\ UNCHANGED << props, date, startDate, endDate, dates, ddVars >>

\* the range branch storing what it reports
onSelectDateRangeStores(selected, now1, now2) ==
  /\ mode = "range"
  /\ reported' = rangeSelect(startDate, endDate, selected, min, max, now1, now2)
  /\ startDate' = reported'.startDate
  /\ endDate' = reported'.endDate
  /\ selectedDate' = selected
  /\ UNCHANGED << props, date, dates, currentDate, ddVars >>

onSelectDateRange(selected, now1, now2) ==
  /\ mode = "range"
  /\ reported' = rangeSelect(startDate, endDate, selected, min, max, now1, now2)
  /\ selectedDate' = selected
  /\ UNCHANGED << props, date, startDate, endDate, dates, currentDate, ddVars >>

onSelectDateMultiple(selected) ==
  /\ mode = "multiple"
  /\ reported' = multipleSelect(dates, selected, max)
  /\ selectedDate' = selected
  /\ UNCHANGED << props, date, startDate, endDate, dates, currentDate, ddVars >>

\* the picks happen during day 1, at any tick of it; the clock may pass a
\* tick between the two readings of one call
Clock == {At(1, t) : t \in 0..(TicksPerDay - 1)}

onSelectDate ==
  \E selected \in CellDates :
    \/ onSelectDateSingle(selected)
    \/ \E now1 \in Clock, step \in {0, 1} :
         onSelectDateRange(selected, now1, now1 + step)
    \/ onSelectDateMultiple(selected)

\* ------------------------------------- the effect on the selection props
\* the caller renders the picker with new selection props; the effect
\* stores them and the notification of the last pick is consumed
selectionEffect(d, s, e, ds) ==
  /\ \/ /\ mode = "single"
        /\ LET v == IF d = Undef \/ timePicker THEN d ELSE getStartOfDay(d)
           IN  /\ date' = (IF v # Undef THEN v ELSE date)
               /\ currentDate' = (IF v # Undef THEN v ELSE currentDate)
        /\ UNCHANGED << startDate, endDate, dates >>
     \/ /\ mode = "range"
        /\ startDate' = s
        /\ endDate' = e
        /\ UNCHANGED << date, currentDate, dates >>
     \/ /\ mode = "multiple"
        /\ dates' = ds
        /\ UNCHANGED << date, currentDate, startDate, endDate >>
  /\ selectedDate' = Undef
  /\ reported' = Silent
  /\ UNCHANGED << props, ddVars >>

\* the entries of the lists a caller passes: two instants of day 0 and one
\* of day 1
MultiDates == {At(0, 0), At(0, TicksPerDay - 1), At(1, 0)}
DateLists == UNION {[1..n -> MultiDates] : n \in 0..MaxLen}
OptDates == PropDates \cup {Undef}

\* the caller passes any selection
SetSelection ==
  \/ \E d \in OptDates : mode = "single" /\ selectionEffect(d, Undef, Undef, << >>)
  \/ \E s \in OptDates, e \in OptDates :
       mode = "range" /\ selectionEffect(Undef, s, e, << >>)
  \/ \E ds \in DateLists : mode = "multiple" /\ selectionEffect(Undef, Undef, Undef, ds)

\* the caller passes the selection the last notification reported
FeedBack ==
  /\ reported.kind # "none"
  /\ selectionEffect(reported.date, reported.startDate, reported.endDate,
                     reported.dates)

Next == onSelectDate \/ SetSelection \/ FeedBack

Spec == Init /\ [][Next]_vars

NextFeed == onSelectDate \/ FeedBack

SpecFeed == Init /\ [][NextFeed]_vars

\* ---------------------------------------------------------- isDateDisabled
\* the bounds minDate / maxDate of a query: at 00:00:00.999 of a day
BoundDates == {Undef} \cup {At(d, 1) : d \in Days}

\* the dates a rule lists or accepts
ItemDates == {At(0, 1), At(1, TicksPerDay - 1)}
Rules ==
  {NoRule} \cup [kind : {"list", "fn"}, items : SUBSET ItemDates]

Queries ==
  [date : Instants, minDate : BoundDates, maxDate : BoundDates,
   enabledDates : Rules, disabledDates : Rules]

\* a picker that is not touched while the predicate is evaluated
InitDisabled ==
  /\ mode = "single"
  /\ calendar = "gregory"
  /\ timePicker = FALSE
  /\ min = Undef
  /\ max = Undef
  /\ date = Undef
  /\ startDate = Undef
  /\ endDate = Undef
  /\ dates = << >>
  /\ currentDate = 0
  /\ selectedDate = Undef
  /\ reported = Silent
  /\ ddQuery \in Queries
  /\ ddResult = NoResult
  /\ EngineIdle

isDateDisabledCall ==
  /\ ~ddResult.done
  /\ ddResult' =
       [done |-> TRUE,
        disabled |-> isDateDisabled(ddQuery.date, ddQuery.minDate,
                                    ddQuery.maxDate, ddQuery.enabledDates,
                                    ddQuery.disabledDates)]
  /\ UNCHANGED << props, date, startDate, endDate, dates, currentDate,
                  selectedDate, reported, ddQuery, engineVars >>

NextDisabled == isDateDisabledCall

SpecDisabled == InitDisabled /\ [][NextDisabled]_vars

\* -------------------------------------------------------------- month grid
\* The grid functions work on whole days.  A day is the number of days since
\* a Sunday, so that .day() of dayjs and dayOfWeek of umalqura, which both
\* count from Sunday = 0, are the remainder modulo seven.
DaysPerWeek == 7
weekday(d) == d % DaysPerWeek

Locales == {"en", "fr", "ar", "fa"}
GridCalendars == {"gregory", "jalali", "islamic"}

\* weekStart of the locale objects of the date libraries (en: none, so 0)
LocaleWeekStart(locale) ==
  CASE locale = "fr" -> 1
    [] locale = "ar" -> 6
    [] locale = "fa" -> 6
    [] OTHER -> 0

\* << days of the previous month, days of the month >> as daysInMonth()
\* and getDaysInHijriMonth report them for two consecutive months
MonthLengths(cal) ==
  CASE cal = "gregory" ->
         {<<31, 31>>, <<31, 28>>, <<31, 29>>, <<28, 31>>, <<29, 31>>,
          <<31, 30>>, <<30, 31>>}
    [] cal = "jalali" ->
         {<<29, 31>>, <<30, 31>>, <<31, 31>>, <<31, 30>>, <<30, 30>>,
          <<30, 29>>}
    [] OTHER -> {29, 30} \X {29, 30}

\* the month of the reference date: the day its day 1 falls on, its length
\* and the length of the month before it
FirstDays == (5 * DaysPerWeek)..(6 * DaysPerWeek - 1)
RefMonths(cal) ==
  {[first |-> d, days |-> l[2], prevDays |-> l[1]] :
     d \in FirstDays, l \in MonthLengths(cal)}

\* getDaysInMonth with the grid switching to six rows one cell too early
getDaysInMonthSixRowsAt35(ref, cal, showOutsideDays, firstDayOfWeek) ==
  LET daysInCurrentMonth == ref.days
      prevMonthDays == ref.prevDays
      firstDay == ref.first - firstDayOfWeek
      prevMonthOffset == IF cal = "islamic"
                         THEN weekday(ref.first)
                         ELSE weekday(firstDay) % 7
      daysInPrevMonth == IF showOutsideDays THEN prevMonthOffset ELSE 0
      monthDaysOffset == prevMonthOffset + daysInCurrentMonth
      daysInNextMonth == IF showOutsideDays
                         THEN IF monthDaysOffset >= 35
                              THEN 42 - monthDaysOffset
                              ELSE 35 - monthDaysOffset
                         ELSE 0
  IN  [prevMonthDays |-> prevMonthDays,
       prevMonthOffset |-> prevMonthOffset,
       daysInCurrentMonth |-> daysInCurrentMonth,
       daysInNextMonth |-> daysInNextMonth,
       fullDaysInMonth |-> daysInPrevMonth + daysInCurrentMonth + daysInNextMonth]

\* getDaysInMonth: firstDay is currentDate.date(1 - firstDayOfWeek); the
\* islamic branch replaces the offset by the weekday of day 1
getDaysInMonth(ref, cal, showOutsideDays, firstDayOfWeek) ==
  LET daysInCurrentMonth == ref.days
      prevMonthDays == ref.prevDays
      firstDay == ref.first - firstDayOfWeek
      prevMonthOffset == IF cal = "islamic"
                         THEN weekday(ref.first)
                         ELSE weekday(firstDay) % 7
      daysInPrevMonth == IF showOutsideDays THEN prevMonthOffset ELSE 0
      monthDaysOffset == prevMonthOffset + daysInCurrentMonth
      daysInNextMonth == IF showOutsideDays
                         THEN IF monthDaysOffset > 35
                              THEN 42 - monthDaysOffset
                              ELSE 35 - monthDaysOffset
                         ELSE 0
  IN  [prevMonthDays |-> prevMonthDays,
       prevMonthOffset |-> prevMonthOffset,
       daysInCurrentMonth |-> daysInCurrentMonth,
       daysInNextMonth |-> daysInNextMonth,
       fullDaysInMonth |-> daysInPrevMonth + daysInCurrentMonth + daysInNextMonth]

\* dayjs startOf('week'): back to the nearest day whose weekday is weekStart
startOfWeekOf(d, weekStart) ==
  LET w == weekday(d)
      gapDays == (IF w < weekStart THEN w + DaysPerWeek ELSE w) - weekStart
  IN  d - gapDays

\* getStartOfHijriWeek: startOf('week') of umalqura; firstDayOfWeek is not
\* an argument
getStartOfHijriWeek(d, hijriWeekStart) == startOfWeekOf(d, hijriWeekStart)

\* an empty slot of the grid (null in the source)
NullCell ==
  [isNull |-> TRUE, number |-> Undef, date |-> Undef, isDisabled |-> FALSE,
   isCurrentMonth |-> FALSE, dayOfMonth |-> Undef,
   isStartOfWeek |-> FALSE, isEndOfWeek |-> FALSE]

\* generateCalendarDay (text, the formatted number, is left out); minDate,
\* maxDate, enabledDates and disabledDates are not supplied
generateCalendarDay(number, d, isCurrentMonth, dayOfMonth, firstDayOfWeek, cal, weekStart, hijriWeekStart) ==
  LET startOfWeek == IF cal = "islamic"
                     THEN getStartOfHijriWeek(d, hijriWeekStart)
                     ELSE startOfWeekOf(d, weekStart) + firstDayOfWeek
  IN  [isNull |-> FALSE,
       number |-> number,
       date |-> d,
       isDisabled |-> isDateDisabled(At(d, 0), Undef, Undef, NoRule, NoRule),
       isCurrentMonth |-> isCurrentMonth,
       dayOfMonth |-> dayOfMonth,
       isStartOfWeek |-> d = startOfWeek,
       isEndOfWeek |-> weekday(d) = (firstDayOfWeek + 6) % 7]

\* getMonthDays that builds the leading cells whatever showOutsideDays says
getMonthDaysAlwaysOutside(ref, showOutsideDays, firstDayOfWeek, prevMonthDays, prevMonthOffset, daysInCurrentMonth, daysInNextMonth, cal, weekStart, hijriWeekStart) ==
  LET prevDays ==
        [index \in 1..prevMonthOffset |->
           LET prevDay == (index - 1) + (prevMonthDays - prevMonthOffset + 1)
           IN  generateCalendarDay(prevDay, ref.first - ref.prevDays + prevDay - 1,
                                   FALSE, index, firstDayOfWeek, cal,
                                   weekStart, hijriWeekStart)]
      currentDays ==
        [day \in 1..daysInCurrentMonth |->
           generateCalendarDay(day, ref.first + day - 1, TRUE,
                               prevMonthOffset + day, firstDayOfWeek, cal,
                               weekStart, hijriWeekStart)]
      nextDays ==
        [day \in 1..daysInNextMonth |->
           generateCalendarDay(day, ref.first + ref.days + day - 1, FALSE,
                               daysInCurrentMonth + prevMonthOffset + day,
                               firstDayOfWeek, cal, weekStart, hijriWeekStart)]
  IN  prevDays \o currentDays \o nextDays

\* getMonthDays numbering the positions of the next month's cells from 1 again
getMonthDaysNextFromOne(ref, showOutsideDays, firstDayOfWeek, prevMonthDays, prevMonthOffset, daysInCurrentMonth, daysInNextMonth, cal, weekStart, hijriWeekStart) ==
  LET prevDays ==
        IF showOutsideDays
        THEN [index \in 1..prevMonthOffset |->
                LET prevDay == (index - 1) + (prevMonthDays - prevMonthOffset + 1)
                IN  generateCalendarDay(prevDay,
                                        ref.first - ref.prevDays + prevDay - 1,
                                        FALSE, index, firstDayOfWeek, cal,
                                        weekStart, hijriWeekStart)]
        ELSE [index \in 1..prevMonthOffset |-> NullCell]
      currentDays ==
        [day \in 1..daysInCurrentMonth |->
           generateCalendarDay(day, ref.first + day - 1, TRUE,
                               prevMonthOffset + day, firstDayOfWeek, cal,
                               weekStart, hijriWeekStart)]
      nextDays ==
        [day \in 1..daysInNextMonth |->
           generateCalendarDay(day, ref.first + ref.days + day - 1, FALSE,
                               day, firstDayOfWeek, cal, weekStart,
                               hijriWeekStart)]
  IN  prevDays \o currentDays \o nextDays

\* getMonthDays: the cells of the previous month (or nulls), of the month and
\* of the next month, in this order
getMonthDays(ref, showOutsideDays, firstDayOfWeek, prevMonthDays, prevMonthOffset, daysInCurrentMonth, daysInNextMonth, cal, weekStart, hijriWeekStart) ==
  LET prevDays ==
        IF showOutsideDays
        THEN [index \in 1..prevMonthOffset |->
                LET prevDay == (index - 1) + (prevMonthDays - prevMonthOffset + 1)
                IN  generateCalendarDay(prevDay,
                                        ref.first - ref.prevDays + prevDay - 1,
                                        FALSE, index, firstDayOfWeek, cal,
                                        weekStart, hijriWeekStart)]
        ELSE [index \in 1..prevMonthOffset |-> NullCell]
      currentDays ==
        [day \in 1..daysInCurrentMonth |->
           generateCalendarDay(day, ref.first + day - 1, TRUE,
                               prevMonthOffset + day, firstDayOfWeek, cal,
                               weekStart, hijriWeekStart)]
      nextDays ==
        [day \in 1..daysInNextMonth |->
           generateCalendarDay(day, ref.first + ref.days + day - 1, FALSE,
                               daysInCurrentMonth + prevMonthOffset + day,
                               firstDayOfWeek, cal, weekStart, hijriWeekStart)]
  IN  prevDays \o currentDays \o nextDays

\* the weekday entries before the rotation: dayjs.weekdays() starts at Sunday
\* whatever the locale; a name is the pair of the locale and the weekday
weekdayEntries(locale) ==
  [i \in 1..DaysPerWeek |-> [index |-> i - 1, name |-> << locale, i - 1 >>]]

\* getWeekdays without the rotation
getWeekdaysSundayFirst(locale, firstDayOfWeek) == weekdayEntries(locale)

\* getWeekdays: slice(firstDayOfWeek) followed by slice(0, firstDayOfWeek)
getWeekdays(locale, firstDayOfWeek) ==
  LET weekdays == weekdayEntries(locale)
  IN  IF firstDayOfWeek > 0
      THEN SubSeq(weekdays, firstDayOfWeek + 1, Len(weekdays))
             \o SubSeq(weekdays, 1, firstDayOfWeek)
      ELSE weekdays

\* one rendering of a month: the header and the grid for one reference month
GridCalls ==
  UNION {[fn : {"getMonthDays"}, calendar : {cal}, ref : RefMonths(cal),
          showOutsideDays : BOOLEAN, firstDayOfWeek : 0..(DaysPerWeek - 1),
          locale : Locales] : cal \in GridCalendars}

NoGrid ==
  [done |-> FALSE, info |-> << >>, days |-> << >>,
   headerDone |-> FALSE, weekdays |-> << >>]

\* the picker has rendered with the locale of the call (dayjs.locale(locale))
InitGrid ==
  /\ mode = "single"
  /\ calendar = "gregory"
  /\ timePicker = FALSE
  /\ min = Undef
  /\ max = Undef
  /\ date = Undef
  /\ startDate = Undef
  /\ endDate = Undef
  /\ dates = << >>
  /\ currentDate = 0
  /\ selectedDate = Undef
  /\ reported = Silent
  /\ ddQuery = NoQuery
  /\ ddResult = NoResult
  /\ engineCall \in GridCalls
  /\ engineResult = NoGrid
  /\ dayjsLocale = engineCall.locale
  /\ umalquraLocale = "en"
  /\ RenderIdle

\* the header row
getWeekdaysCall ==
  /\ engineCall.fn = "getMonthDays"
  /\ ~engineResult.headerDone
  /\ engineResult' =
       [engineResult EXCEPT
          !.headerDone = TRUE,
          !.weekdays = getWeekdays(engineCall.locale, engineCall.firstDayOfWeek)]
  /\ dayjsLocale' = engineCall.locale
  /\ UNCHANGED << pickerVars, engineCall, umalquraLocale >>

\* the grid: getMonthDays fed with the result of getDaysInMonth
getMonthDaysCall ==
  /\ engineCall.fn = "getMonthDays"
  /\ ~engineResult.done
  /\ LET c == engineCall
         info == getDaysInMonth(c.ref, c.calendar, c.showOutsideDays,
                                c.firstDayOfWeek)
     IN  engineResult' =
           [engineResult EXCEPT
              !.done = TRUE,
              !.info = info,
              !.days = getMonthDays(c.ref, c.showOutsideDays, c.firstDayOfWeek,
                                    info.prevMonthDays, info.prevMonthOffset,
                                    info.daysInCurrentMonth, info.daysInNextMonth,
                                    c.calendar, LocaleWeekStart(dayjsLocale),
                                    LocaleWeekStart(umalquraLocale))]
  /\ UNCHANGED << pickerVars, engineCall, dayjsLocale, umalquraLocale >>

NextGrid == getWeekdaysCall \/ getMonthDaysCall

SpecGrid == InitGrid /\ [][NextGrid]_vars

\* --------------------------------------------------------- isMonthDisabled
\* isMonthDisabled looks at dates through getDateYear and getDateMonth only.
\* For it a date is a month stamp, year * 12 + month, in the calendar of the
\* call; the sampled dates lie in the first, a middle and the last month of
\* a year.
MonthsPerYear == 12
Years == 0..MaxYear
MonthStamps == {y * MonthsPerYear + mo : y \in Years, mo \in {0, 5, 11}}
getDateMonth(stamp) == stamp % MonthsPerYear
getDateYear(stamp) == stamp \div MonthsPerYear

\* isMonthDisabled comparing the months whatever the years
isMonthDisabledAnyYear(month, d, minDate, maxDate) ==
  IF minDate # Undef /\ month < getDateMonth(minDate)
  THEN TRUE
  ELSE IF maxDate # Undef /\ month > getDateMonth(maxDate)
       THEN TRUE
       ELSE FALSE

isMonthDisabled(month, d, minDate, maxDate) ==
  IF /\ minDate # Undef
     /\ month < getDateMonth(minDate)
     /\ getDateYear(d) = getDateYear(minDate)
  THEN TRUE
  ELSE IF /\ maxDate # Undef
          /\ month > getDateMonth(maxDate)
          /\ getDateYear(d) = getDateYear(maxDate)
       THEN TRUE
       ELSE FALSE

MonthCalls ==
  [fn : {"isMonthDisabled"}, month : 0..(MonthsPerYear - 1), date : MonthStamps,
   minDate : {Undef} \cup MonthStamps, maxDate : {Undef} \cup MonthStamps]

\* a picker and libraries that are not touched by the calls of a utils function
Untouched ==
  /\ mode = "single"
  /\ calendar = "gregory"
  /\ timePicker = FALSE
  /\ min = Undef
  /\ max = Undef
  /\ date = Undef
  /\ startDate = Undef
  /\ endDate = Undef
  /\ dates = << >>
  /\ currentDate = 0
  /\ selectedDate = Undef
  /\ reported = Silent
  /\ ddQuery = NoQuery
  /\ ddResult = NoResult
  /\ dayjsLocale = "en"
  /\ umalquraLocale = "en"
  /\ RenderIdle

InitMonth ==
  /\ Untouched
  /\ engineCall \in MonthCalls
  /\ engineResult = [done |-> FALSE, disabled |-> FALSE]

isMonthDisabledCall ==
  /\ engineCall.fn = "isMonthDisabled"
  /\ ~engineResult.done
  /\ engineResult' =
       [done |-> TRUE,
        disabled |-> isMonthDisabled(engineCall.month, engineCall.date,
                                     engineCall.minDate, engineCall.maxDate)]
  /\ UNCHANGED << pickerVars, engineCall, dayjsLocale, umalquraLocale >>

NextMonth == isMonthDisabledCall

SpecMonth == InitMonth /\ [][NextMonth]_vars

\* ----------------------------------------------------------------- getDayjs
\* A value handed to or returned by getDayjs is a record.  kind tells the raw
\* inputs apart: "undefined", "unparsable" (null or a string dayjs cannot
\* parse), "date"; the results add "invalid" (the Invalid Date object of
\* dayjs, isValid() false) and "error" (an exception).  A date carries its
\* calendar tag C ($C), its year, month and day as one day number ymd counted
\* in the calendar of its fields, its weekday W and its hour H and minute m.
\* The same day has a Hijri day number that is HijriLag lower than its
\* Gregorian day number.
HijriLag == 3
NoFields == [C |-> "none", ymd |-> Undef, W |-> Undef, H |-> Undef, m |-> Undef]
Value(kind, f) ==
  [kind |-> kind, C |-> f.C, ymd |-> f.ymd, W |-> f.W, H |-> f.H, m |-> f.m]
Undefined == Value("undefined", NoFields)
Unparsable == Value("unparsable", NoFields)
InvalidDate == Value("invalid", NoFields)
ConversionError == Value("error", NoFields)

\* the day p (days since a Sunday) at H:m as a Gregorian and as a Hijri date
GregorianDate(p, H, m) ==
  Value("date", [C |-> "gregory", ymd |-> p + HijriLag, W |-> weekday(p),
                 H |-> H, m |-> m])
HijriDate(p, H, m) ==
  Value("date", [C |-> "islamic", ymd |-> p, W |-> weekday(p), H |-> H, m |-> m])

\* dayjs(date): Invalid Date for what it cannot parse
dayjsOf(d) == IF d.kind = "date" THEN d ELSE InvalidDate

\* adjustDayjsHijriDate: reads year, month and day of its argument as a
\* Gregorian date (new Date(year, month, date)), converts that day to Hijri
\* and writes the Hijri fields and the weekday; hour and minute stay.  What
\* the conversion packages make of an invalid date, hijriOfInvalid, is theirs
\* to decide.
adjustDayjsHijriDate(d, hijriOfInvalid) ==
  IF d.kind = "date"
  THEN HijriDate(d.ymd - HijriLag, d.H, d.m)
  ELSE hijriOfInvalid

\* getDayjs that converts again what is already tagged islamic
getDayjsNoTagCheck(d, cal, now, hijriOfInvalid) ==
  LET d1 == IF d.kind = "undefined" THEN now ELSE d
  IN  IF cal = "islamic"
      THEN adjustDayjsHijriDate(d1, hijriOfInvalid)
      ELSE dayjsOf(d1)

\* getDayjs that takes the current instant for whatever it cannot parse
getDayjsNowForUnparsable(d, cal, now, hijriOfInvalid) ==
  LET d1 == IF d.kind # "date" THEN now ELSE d
  IN  IF cal = "islamic"
      THEN IF d1.C = "islamic"
           THEN d1
           ELSE adjustDayjsHijriDate(d1, hijriOfInvalid)
      ELSE dayjsOf(d1)

\* getDayjs: now for undefined; for islamic the tagged value itself or the
\* converted one; else dayjs(date)
getDayjs(d, cal, now, hijriOfInvalid) ==
  LET d1 == IF d.kind = "undefined" THEN now ELSE d
  IN  IF cal = "islamic"
      THEN IF d1.kind = "date" /\ d1.C = "islamic"
           THEN d1
           ELSE adjustDayjsHijriDate(d1, hijriOfInvalid)
      ELSE dayjsOf(d1)

DayNumbers == (2 * HijriLag)..(2 * HijriLag + MaxDay)
Hours == {0, 23}
Minutes == {0, 59}
DateValues ==
  {GregorianDate(p, h, mi) : p \in DayNumbers, h \in Hours, mi \in Minutes}
    \cup {HijriDate(p, h, mi) : p \in DayNumbers, h \in Hours, mi \in Minutes}
\* readings of the clock (new Date())
NowValues == {GregorianDate(2 * HijriLag + 1, h, 59) : h \in Hours}

DayjsCalls ==
  [fn : {"getDayjs"}, date : {Undefined, Unparsable} \cup DateValues,
   calendar : GridCalendars]

NoValue == [done |-> FALSE, value |-> Undefined, now |-> Undefined,
            againDone |-> FALSE, again |-> Undefined]

InitDayjs ==
  /\ Untouched
  /\ engineCall \in DayjsCalls
  /\ engineResult = NoValue

\* getDayjs on the raw input
getDayjsCall ==
  /\ engineCall.fn = "getDayjs"
  /\ ~engineResult.done
  /\ \E now \in NowValues, hijriOfInvalid \in {InvalidDate, ConversionError} :
       engineResult' =
         [engineResult EXCEPT
            !.done = TRUE,
            !.now = now,
            !.value = getDayjs(engineCall.date, engineCall.calendar, now,
                               hijriOfInvalid)]
  /\ UNCHANGED << pickerVars, engineCall, dayjsLocale, umalquraLocale >>

\* getDayjs on the date a first call returned, as generateCalendarDay and
\* the other utils functions do with the dates they are handed
getDayjsAgain ==
  /\ engineCall.fn = "getDayjs"
  /\ engineResult.done
  /\ ~engineResult.againDone
  /\ engineResult.value.kind = "date"
  /\ \E now \in NowValues, hijriOfInvalid \in {InvalidDate, ConversionError} :
       engineResult' =
         [engineResult EXCEPT
            !.againDone = TRUE,
            !.again = getDayjs(engineResult.value, engineCall.calendar, now,
                               hijriOfInvalid)]
  /\ UNCHANGED << pickerVars, engineCall, dayjsLocale, umalquraLocale >>

NextDayjs == getDayjsCall \/ getDayjsAgain

SpecDayjs == InitDayjs /\ [][NextDayjs]_vars

\* ---------------------------------------------------- two pickers, one dayjs
\* Two pickers with props of their own share the dayjs and umalqura modules.
\* A list of names is the pair of the library that produced it and the
\* locale it is written in.
Callers == {"A", "B"}
PickerProps == [locale : Locales, calendar : GridCalendars]
NoNames == << "none", "none" >>

\* getJalaliMonths: JALALI_MONTHS[locale] || JALALI_MONTHS.en
getJalaliMonths(locale) ==
  << "jalali", IF locale \in {"fa", "en"} THEN locale ELSE "en" >>

\* getMonthsArray: dayjs.months() speaks the global locale of dayjs; the
\* islamic branch sets the global locale of umalqura and reads its months
getMonthsArray(cal, locale, globalLocale) ==
  IF cal = "islamic"
  THEN << "umalqura", locale >>
  ELSE IF cal = "jalali"
       THEN getJalaliMonths(locale)
       ELSE << "dayjs", globalLocale >>

SharedCalls == [fn : {"mount"}, caller : Callers, pickers : [Callers -> PickerProps]]

NoShared ==
  [done |-> FALSE, names |-> NoNames, weekdays |-> << >>,
   first |-> [p \in Callers |-> NoNames]]

\* both pickers are mounted, with different props; no call has been made
InitShared ==
  /\ Untouched
  /\ engineCall \in SharedCalls
  /\ engineCall.caller = "A"
  /\ engineCall.pickers["A"] # engineCall.pickers["B"]
  /\ engineResult = NoShared

\* the body of DateTimePicker: dayjs.locale(locale)
renderPicker(p) ==
  /\ engineCall.fn \in {"mount", "render", "getWeekdays", "getMonthsArray"}
  /\ engineCall' = [engineCall EXCEPT !.fn = "render", !.caller = p]
  /\ engineResult' = [engineResult EXCEPT !.done = FALSE]
  /\ dayjsLocale' = engineCall.pickers[p].locale
  /\ UNCHANGED << pickerVars, umalquraLocale >>

\* getWeekdays(locale, 0) called for picker p
getWeekdaysBy(p) ==
  /\ engineCall.fn \in {"mount", "render", "getWeekdays", "getMonthsArray"}
  /\ engineCall' = [engineCall EXCEPT !.fn = "getWeekdays", !.caller = p]
  /\ engineResult' =
       [engineResult EXCEPT
          !.done = TRUE,
          !.weekdays = getWeekdays(engineCall.pickers[p].locale, 0)]
  /\ dayjsLocale' = engineCall.pickers[p].locale
  /\ UNCHANGED << pickerVars, umalquraLocale >>

\* getMonthsArray({calendar, locale}) called for picker p
getMonthsArrayBy(p) ==
  /\ engineCall.fn \in {"mount", "render", "getWeekdays", "getMonthsArray"}
  /\ LET names == getMonthsArray(engineCall.pickers[p].calendar,
                                 engineCall.pickers[p].locale, dayjsLocale)
     IN  /\ engineCall' = [engineCall EXCEPT !.fn = "getMonthsArray", !.caller = p]
         /\ engineResult' =
              [engineResult EXCEPT
                 !.done = TRUE,
                 !.names = names,
                 !.first = IF engineResult.first[p] = NoNames
                           THEN [engineResult.first EXCEPT ![p] = names]
                           ELSE engineResult.first]
  /\ umalquraLocale' = IF engineCall.pickers[p].calendar = "islamic"
                       THEN engineCall.pickers[p].locale
                       ELSE umalquraLocale
  /\ UNCHANGED << pickerVars, dayjsLocale >>

NextShared ==
  \E p \in Callers : renderPicker(p) \/ getWeekdaysBy(p) \/ getMonthsArrayBy(p)

SpecShared == InitShared /\ [][NextShared]_vars

\* ------------------------------------------------------------- getYearRange
YEAR_PAGE_SIZE == 12

\* Math.ceil(a / b) for a natural a
ceilDiv(a, b) == (a + b - 1) \div b

\* getYearRange without the test for a year that ends a block of twelve
getYearRangeEndsAtYear(year) ==
  LET endYear == YEAR_PAGE_SIZE * ceilDiv(year, YEAR_PAGE_SIZE)
      startYear0 == endYear - YEAR_PAGE_SIZE
      startYear == IF startYear0 < 0 THEN 0 ELSE startYear0
  IN  [i \in 1..YEAR_PAGE_SIZE |-> startYear + (i - 1)]

getYearRange(year) ==
  LET endYear == YEAR_PAGE_SIZE * ceilDiv(year, YEAR_PAGE_SIZE)
      startYear0 == IF endYear = year THEN endYear ELSE endYear - YEAR_PAGE_SIZE
      startYear == IF startYear0 < 0 THEN 0 ELSE startYear0
  IN  [i \in 1..YEAR_PAGE_SIZE |-> startYear + (i - 1)]

\* the years of two year buttons: two pages and their first and last years
PageYears == 0..(2 * YEAR_PAGE_SIZE + MaxYear)
YearCalls == [fn : {"getYearRange"}, year : PageYears, other : PageYears]

InitYears ==
  /\ Untouched
  /\ engineCall \in YearCalls
  /\ engineResult = [done |-> FALSE, years |-> << >>, otherYears |-> << >>]

\* YearButton: const years = getYearRange(currentYear), for two current years
getYearRangeCall ==
  /\ engineCall.fn = "getYearRange"
  /\ ~engineResult.done
  /\ engineResult' = [done |-> TRUE,
                      years |-> getYearRange(engineCall.year),
                      otherYears |-> getYearRange(engineCall.other)]
  /\ UNCHANGED << pickerVars, engineCall, dayjsLocale, umalquraLocale >>

NextYears == getYearRangeCall

SpecYears == InitYears /\ [][NextYears]_vars

\* ------------------------------------------- removeTime and its arguments
\* The dayjs objects a range pick hands to removeTime: the stored startDate
\* and endDate and the date of the picked cell.  removeTimeArgument is the
\* object that was handed over, as it is once removeTime has returned: the
\* islamic branch writes $H and $m of the object itself, the other branch
\* builds a new object.
removeTimeArgument(d, cal) ==
  IF d.kind # "date"
  THEN d
  ELSE IF cal = "islamic"
       THEN [d EXCEPT !.H = 0, !.m = 0]
       ELSE d

\* the dates of a picker of the given calendar
DatesOf(cal) ==
  IF cal = "islamic"
  THEN {HijriDate(p, h, mi) : p \in DayNumbers, h \in Hours, mi \in Minutes}
  ELSE {GregorianDate(p, h, mi) : p \in DayNumbers, h \in Hours, mi \in Minutes}

PickCalls ==
  UNION {[fn : {"removeTime"}, calendar : {cal},
          startDate : {Undefined} \cup DatesOf(cal),
          endDate : {Undefined} \cup DatesOf(cal),
          selectedDate : DatesOf(cal)] : cal \in GridCalendars}

InitPick ==
  /\ Untouched
  /\ engineCall \in PickCalls
  /\ engineResult = [done |-> FALSE, startDate |-> Undefined,
                     endDate |-> Undefined, selectedDate |-> Undefined]

\* the three removeTime calls at the head of the range branch; the result
\* holds the three objects as the caller finds them afterwards
removeTimeCalls ==
  /\ engineCall.fn = "removeTime"
  /\ ~engineResult.done
  /\ engineResult' =
       [done |-> TRUE,
        startDate |-> removeTimeArgument(engineCall.startDate, engineCall.calendar),
        endDate |-> removeTimeArgument(engineCall.endDate, engineCall.calendar),
        selectedDate |-> removeTimeArgument(engineCall.selectedDate,
                                            engineCall.calendar)]
  /\ UNCHANGED << pickerVars, engineCall, dayjsLocale, umalquraLocale >>

NextPick == removeTimeCalls

SpecPick == InitPick /\ [][NextPick]_vars

\* ------------------------------------------------- mount with month and year
\* The mount of a single-mode picker, seen at the grain of months: a date is
\* a month stamp (year * 12 + month).  minDate, maxDate and timeZone are not
\* supplied.  The effects run in the order of their declaration after the
\* first render; each dispatch is queued and the reducer takes the queue at
\* the next render.  stateRef.current is the state of the first render
\* during all of them.
setMonth(stamp, mo) == getDateYear(stamp) * MonthsPerYear + mo
setYear(stamp, y) == y * MonthsPerYear + getDateMonth(stamp)

\* initialState.currentDate: 'month !== undefined && month && month >= 0 &&
\* month <= 11' is false for month 0
initialCurrentDate(dateProp, monthProp, yearProp, now) ==
  LET d0 == IF dateProp # Undef THEN dateProp ELSE now
      d1 == IF monthProp # Undef /\ Truthy(monthProp) /\ monthProp >= 0 /\ monthProp <= 11
            THEN setMonth(d0, monthProp) ELSE d0
  IN  IF yearProp # Undef /\ yearProp >= 0 THEN setYear(d1, yearProp) ELSE d1

\* the reducer on currentDate: every queued action that sets it, in order
RECURSIVE reduceCurrentDate(_, _)
reduceCurrentDate(current, queue) ==
  IF queue = << >> THEN current
  ELSE reduceCurrentDate(Head(queue), Tail(queue))

MountCalls ==
  [fn : {"mount"}, date : {Undef} \cup MonthStamps,
   month : {Undef} \cup (0..(MonthsPerYear - 1)), year : {Undef} \cup Years,
   now : MonthStamps]

\* after the first render
InitMount ==
  /\ Untouched
  /\ engineCall \in MountCalls
  /\ engineResult =
       [done |-> FALSE, effect |-> "calendar", queue |-> << >>,
        currentDate |-> initialCurrentDate(engineCall.date, engineCall.month,
                                           engineCall.year, engineCall.now)]

\* useEffect(..., [calendar]): RESET_STATE with initialState
calendarEffect ==
  /\ engineCall.fn = "mount"
  /\ engineResult.effect = "calendar"
  /\ engineResult' =
       [engineResult EXCEPT
          !.effect = "selection",
          !.queue = Append(@, initialCurrentDate(engineCall.date, engineCall.month,
                                                 engineCall.year, engineCall.now))]
  /\ UNCHANGED << pickerVars, engineCall, dayjsLocale, umalquraLocale >>

\* the effect on the selection props, single mode: CHANGE_SELECTED_DATE sets
\* date and currentDate when a date is supplied
selectionEffectAtMount ==
  /\ engineCall.fn = "mount"
  /\ engineResult.effect = "selection"
  /\ engineResult' =
       [engineResult EXCEPT
          !.effect = "month",
          !.queue = IF engineCall.date # Undef
                    THEN Append(@, engineCall.date) ELSE @]
  /\ UNCHANGED << pickerVars, engineCall, dayjsLocale, umalquraLocale >>

\* useEffect(..., [month]): onSelectMonth(month) on stateRef.current
monthEffect ==
  /\ engineCall.fn = "mount"
  /\ engineResult.effect = "month"
  /\ engineResult' =
       [engineResult EXCEPT
          !.effect = "year",
          !.queue = IF engineCall.month # Undef /\ engineCall.month >= 0
                       /\ engineCall.month <= 11
                    THEN Append(@, setMonth(engineResult.currentDate,
                                            engineCall.month))
                    ELSE @]
  /\ UNCHANGED << pickerVars, engineCall, dayjsLocale, umalquraLocale >>

\* useEffect(..., [year]): onSelectYear(year) on stateRef.current
yearEffect ==
  /\ engineCall.fn = "mount"
  /\ engineResult.effect = "year"
  /\ engineResult' =
       [engineResult EXCEPT
          !.effect = "render",
          !.queue = IF engineCall.year # Undef /\ engineCall.year >= 0
                    THEN Append(@, setYear(engineResult.currentDate,
                                           engineCall.year))
                    ELSE @]
  /\ UNCHANGED << pickerVars, engineCall, dayjsLocale, umalquraLocale >>

\* the render that follows: the reducer takes the queued actions; no effect
\* has a changed dependency afterwards
rerender ==
  /\ engineCall.fn = "mount"
  /\ engineResult.effect = "render"
  /\ engineResult' =
       [done |-> TRUE, effect |-> "none", queue |-> << >>,
        currentDate |-> reduceCurrentDate(engineResult.currentDate,
                                          engineResult.queue)]
  /\ UNCHANGED << pickerVars, engineCall, dayjsLocale, umalquraLocale >>

NextMount ==
  calendarEffect \/ selectionEffectAtMount \/ monthEffect \/ yearEffect \/ rerender

SpecMount == InitMount /\ [][NextMount]_vars

\* ------------------------------------------------- renders and callbacks
\* The component across renders.  The caller may replace the props calendar,
\* onChange and timeZone; every such change is one render with the effects
\* whose dependencies changed.  onSelectDate is memoized: a render makes a
\* new one only when one of its dependencies changed, and the cells keep
\* calling the one they were given.  invoked records what the last event did
\* with onChange: the callee ("none": nothing was called, "absent": the call
\* of a callback that is not there) and the calendar the event worked with,
\* next to the props onChange and calendar at that moment.
Callbacks == {"f", "g"}
OptCallbacks == {"none"} \cup Callbacks
TimeZones == {"UTC", "Asia/Tehran"}

Invocation(by, callee, cal, prop, propCalendar) ==
  [by |-> by, callee |-> callee, calendar |-> cal,
   prop |-> prop, propCalendar |-> propCalendar]

\* the value of currentDate in initialState
initialDate(now) ==
  IF mode = "single" /\ date # Undef THEN date
  ELSE IF mode = "range" /\ startDate # Undef THEN startDate
  ELSE IF mode = "multiple" /\ Len(dates) > 0 THEN dates[1]
  ELSE now

\* what the selection effect hands to onChange after a change of timeZone
selectionOf(m) ==
  CASE m = "single" -> SingleChange(date)
    [] m = "range" -> RangeChange(startDate, endDate)
    [] m = "multiple" -> MultiChange(dates, Undef, "updated")

InitRender ==
  /\ PropsOk
  /\ timePicker = FALSE
  /\ min = Undef
  /\ max = Undef
  /\ date = Undef
  /\ startDate = Undef
  /\ endDate = Undef
  /\ dates = << >>
  /\ currentDate = 0
  /\ selectedDate = Undef
  /\ reported = Silent
  /\ ddQuery = NoQuery
  /\ ddResult = NoResult
  /\ engineCall = NoCall
  /\ engineResult = NotDone
  /\ dayjsLocale = "en"
  /\ umalquraLocale = "en"
  /\ onChange \in OptCallbacks
  /\ timeZone = "none"
  /\ handler = [calendar |-> calendar, onChange |-> onChange]
  /\ invoked = NoInvocation

\* a cell calls the memoized onSelectDate: the state comes from stateRef,
\* calendar and onChange are the ones the handler closed over
onSelectDateMemoized ==
  \E selected \in CellDates :
    /\ IF handler.onChange = "none"
       THEN /\ reported' = Silent
            /\ currentDate' = currentDate
       ELSE /\ reported' \in
                 CASE mode = "single" -> {SingleChange(getStartOfDay(selected))}
                   [] mode = "range" ->
                        {rangeSelect(startDate, endDate, selected, min, max,
                                     now1, now1 + step) :
                           now1 \in Clock, step \in {0, 1}}
                   [] mode = "multiple" ->
                        {multipleSelect(dates, selected, max)}
            /\ currentDate' =
                 (IF mode = "single" THEN getStartOfDay(selected)
                  ELSE currentDate)
    /\ selectedDate' = selected
    /\ invoked' = Invocation("pick",
                             IF reported'.kind = "none" THEN "none"
                             ELSE handler.onChange,
                             handler.calendar, onChange, calendar)
    /\ UNCHANGED << props, date, startDate, endDate, dates, onChange, timeZone,
                    handler, utilVars >>

\* the caller replaces the calendar: RESET_STATE with the initial state of
\* the new calendar, then the selection effect; the handler is kept
changeCalendar ==
  \E c \in Calendars \ {calendar} :
    /\ calendar' = c
    /\ currentDate' \in {initialDate(now) : now \in Clock}
    /\ selectedDate' = Undef
    /\ reported' = Silent
    /\ invoked' = Invocation("calendar", "none", c, onChange, c)
    /\ UNCHANGED << mode, timePicker, min, max, date, startDate, endDate,
                    dates, onChange, timeZone, handler, utilVars >>

\* the caller replaces onChange: the selection effect runs again and stores
\* the same selection; the handler is kept
changeOnChange ==
  \E f \in OptCallbacks \ {onChange} :
    /\ onChange' = f
    /\ currentDate' =
         (IF mode = "single" /\ date # Undef THEN date ELSE currentDate)
    /\ selectedDate' = Undef
    /\ reported' = Silent
    /\ invoked' = Invocation("onChange", "none", calendar, f, calendar)
    /\ UNCHANGED << props, date, startDate, endDate, dates, timeZone, handler,
                    utilVars >>

\* the caller replaces timeZone: prevTimezone differs from timeZone in this
\* render, so currentDate becomes the present moment, the selection effect
\* stores the selection and calls onChange with it, and a new handler is
\* made, timeZone being one of its dependencies
changeTimeZone ==
  \E tz \in TimeZones \ {timeZone} :
    /\ timeZone' = tz
    /\ currentDate' \in
         {IF mode = "single" /\ date # Undef THEN date ELSE now :
            now \in Clock}
    /\ selectedDate' = Undef
    /\ reported' = (IF onChange = "none" THEN Silent ELSE selectionOf(mode))
    /\ invoked' = Invocation("timeZone",
                             IF onChange = "none" THEN "absent" ELSE onChange,
                             calendar, onChange, calendar)
    /\ handler' = [calendar |-> calendar, onChange |-> onChange]
    /\ UNCHANGED << props, date, startDate, endDate, dates, onChange,
                    utilVars >>

\* the caller passes the selection the last notification reported
feedBackRendered ==
  /\ reported.kind # "none"
  /\ \/ /\ mode = "single"
        /\ date' = (IF reported.date # Undef THEN reported.date ELSE date)
        /\ currentDate' =
             (IF reported.date # Undef THEN reported.date ELSE currentDate)
        /\ UNCHANGED << startDate, endDate, dates >>
     \/ /\ mode = "range"
        /\ startDate' = reported.startDate
        /\ endDate' = reported.endDate
        /\ UNCHANGED << date, currentDate, dates >>
     \/ /\ mode = "multiple"
        /\ dates' = reported.dates
        /\ UNCHANGED << date, currentDate, startDate, endDate >>
  /\ selectedDate' = Undef
  /\ reported' = Silent
  /\ invoked' = Invocation("selection", "none", calendar, onChange, calendar)
  /\ UNCHANGED << props, onChange, timeZone, handler, utilVars >>

NextRender ==
  \/ onSelectDateMemoized
  \/ changeCalendar
  \/ changeOnChange
  \/ changeTimeZone
  \/ feedBackRendered

SpecRender == InitRender /\ [][NextRender]_vars

\* ================================================================ claims
\* state right after a pick in range mode: startDate and endDate are the
\* selection the pick was made on, selectedDate the picked cell's date
RangePicked == mode = "range" /\ selectedDate # Undef

ReportsReset == reported.startDate = Undef /\ reported.endDate = Undef

ReportsBoth == reported.startDate # Undef /\ reported.endDate # Undef

\* whole-day span of a notification that carries both bounds
ReportedSpan == DayOf(reported.endDate) - DayOf(reported.startDate)

\* C1: in range mode, with start and end set and the start day strictly
\* before the end day, picking the start day again reports
\* {startDate: undefined, endDate: undefined}, with or without min/max.
C1_RepickStartResets ==
  ( /\ RangePicked
    /\ startDate # Undef /\ endDate # Undef
    /\ DayOf(startDate) < DayOf(endDate)
    /\ DayOf(selectedDate) = DayOf(startDate) )
  => ReportsReset

\* C2: in range mode, with start and end on the same day and a pick on a
\* strictly later day that violates no min/max bound, the notification
\* carries the start day unchanged as startDate and the picked day as endDate.
C2_NoBoundViolated ==
  LET span == DayOf(selectedDate) - DayOf(startDate)
  IN  (min = Undef \/ span >= min) /\ (max = Undef \/ span <= max)

C2_Case ==
  /\ RangePicked
  /\ startDate # Undef /\ endDate # Undef
  /\ DayOf(startDate) = DayOf(endDate)
  /\ DayOf(selectedDate) > DayOf(startDate)
  /\ C2_NoBoundViolated

C2_SameDayThenLaterExtends ==
  C2_Case =>
    /\ reported.kind = "range"
    /\ reported.startDate = At(DayOf(startDate), 0)
    /\ reported.endDate = At(DayOf(selectedDate), TicksPerDay - 1)

C2_Witness ==
  /\ C2_Case
  /\ max # Undef /\ min # Undef
  /\ DayOf(reported.endDate) = DayOf(selectedDate)

\* C3: feeding every notification back, a reported range that has both
\* bounds has startDate <= endDate.
C3_ReportedRangeOrdered ==
  (reported.kind = "range" /\ ReportsBoth)
  => reported.startDate <= reported.endDate

\* C4: with min and/or max configured, every notification that carries both
\* bounds has a whole-day span with min <= span <= max, and a pick whose
\* span would violate a bound reports startDate = the picked day and
\* endDate = undefined.  The span a pick would give is the span of the
\* notification the same pick gives with no bound configured; it is taken
\* on selections that have both bounds, where no clock reading is involved.
C4_Unbounded ==
  rangeSelect(startDate, endDate, selectedDate, Undef, Undef, 0, 0)

C4_WouldViolate(lo, hi) ==
  /\ startDate # Undef /\ endDate # Undef
  /\ C4_Unbounded.startDate # Undef /\ C4_Unbounded.endDate # Undef
  /\ LET span == DayOf(C4_Unbounded.endDate) - DayOf(C4_Unbounded.startDate)
     IN  (lo # Undef /\ span < lo) \/ (hi # Undef /\ span > hi)

C4_Restarted ==
  /\ reported.startDate = At(DayOf(selectedDate), 0)
  /\ reported.endDate = Undef

C4_Bound(n) == IF n = 0 THEN Undef ELSE n

C5_NoStartReportsReset ==
  (RangePicked /\ startDate = Undef) => ReportsReset

\* C5 as amended: when no start date is set yet, a pick never reports both
\* bounds as undefined; it reports the picked day, either as startDate at
\* 00:00 (endDate then being the end of the current end day, or undefined
\* when no end date is set or the min/max check dropped it) or as endDate at
\* the end of the day with startDate undefined.
C5_NoStartReportsPick ==
  (RangePicked /\ startDate = Undef) =>
    /\ ~ReportsReset
    /\ \/ /\ reported.startDate = At(DayOf(selectedDate), 0)
          /\ \/ reported.endDate = Undef
             \/ endDate # Undef /\ reported.endDate = At(DayOf(endDate), TicksPerDay - 1)
       \/ /\ reported.startDate = Undef
          /\ reported.endDate = At(DayOf(selectedDate), TicksPerDay - 1)

C5_Witness ==
  /\ RangePicked
  /\ startDate = Undef /\ endDate = Undef
  /\ reported.startDate = At(DayOf(selectedDate), 0)
  /\ reported.endDate = Undef

MultiplePicked == mode = "multiple" /\ selectedDate # Undef

C7_Present == \E i \in 1..Len(dates) : DayOf(dates[i]) = DayOf(selectedDate)

\* the entries of a list that are not on the picked day, in order
C7_Others(list) == SelectSeq(list, LAMBDA d : DayOf(d) # DayOf(selectedDate))

\* the list as a bag of values: value -> number of occurrences
C7_Count(list, v) == Cardinality({i \in 1..Len(list) : list[i] = v})

C7_SameEntries(a, b) ==
  /\ Len(a) = Len(b)
  /\ \A i \in 1..Len(a) : C7_Count(a, a[i]) = C7_Count(b, a[i])

\* C7: in multiple mode, picking a day already present removes it and
\* reports 'removed'; picking a day not present appends it and reports
\* 'added'; the configured max blocks only an append that would make the
\* count exceed max (nothing is reported) and never blocks a removal.
C7_ToggleAndMaxOnlyBlocksAppend ==
  MultiplePicked =>
    IF C7_Present
    THEN /\ reported.kind = "multiple"
         /\ reported.change = "removed"
         /\ C7_SameEntries(reported.dates, C7_Others(dates))
    ELSE IF Truthy(max) /\ Len(dates) + 1 > max
         THEN reported = Silent
         ELSE /\ reported.kind = "multiple"
              /\ reported.change = "added"
              /\ C7_SameEntries(reported.dates,
                                Append(dates, At(DayOf(selectedDate), 0)))

\* C8: in multiple mode, the dates list of every notification is sorted in
\* ascending order of instant, whatever the order of the current list.
C8_ReportedDatesSorted ==
  reported.kind = "multiple" =>
    \A i \in 1..Len(reported.dates), j \in 1..Len(reported.dates) :
      i < j => reported.dates[i] <= reported.dates[j]

\* a notification whose list is not the stored list in its stored order
C8_Witness ==
  /\ MultiplePicked
  /\ reported.kind = "multiple"
  /\ Len(reported.dates) >= 2
  /\ \E i \in 1..Len(dates), j \in 1..Len(dates) : i < j /\ dates[i] > dates[j]
  /\ reported.change = "added"
  /\ reported.dates # Append(dates, At(DayOf(selectedDate), 0))

\* ---- isDateDisabled
DDInBounds ==
  /\ ddQuery.minDate = Undef \/ DayOf(ddQuery.date) >= DayOf(ddQuery.minDate)
  /\ ddQuery.maxDate = Undef \/ DayOf(ddQuery.date) <= DayOf(ddQuery.maxDate)

\* the rule alone: an array matches by calendar day, a predicate by its value
DDMatches(rule) ==
  IF rule.kind = "list"
  THEN \E d \in rule.items : DayOf(d) = DayOf(ddQuery.date)
  ELSE ddQuery.date \in rule.items

\* C9: whenever enabledDates is supplied (a list, also an empty one, or a
\* predicate), an in-bounds date is disabled exactly when enabledDates does
\* not match it; disabledDates has no influence on the result.
C9_EnabledDatesGovern ==
  (ddResult.done /\ ddQuery.enabledDates.kind # "none" /\ DDInBounds) =>
    ddResult.disabled = ~DDMatches(ddQuery.enabledDates)

\* both rules supplied and disagreeing on the date
C9_Witness ==
  /\ ddResult.done /\ DDInBounds
  /\ ddQuery.enabledDates.kind # "none"
  /\ ddQuery.disabledDates.kind # "none"
  /\ DDMatches(ddQuery.enabledDates) /\ DDMatches(ddQuery.disabledDates)
  /\ ~ddResult.disabled

\* the verdict of the rules when no bound is supplied
DDRulesVerdict ==
  IF ddQuery.enabledDates.kind # "none" THEN ~DDMatches(ddQuery.enabledDates)
  ELSE IF ddQuery.disabledDates.kind # "none" THEN DDMatches(ddQuery.disabledDates)
  ELSE FALSE

\* C10: the bounds are evaluated before any rule: a date before the start
\* of minDate's day or after the end of maxDate's day is disabled even when
\* enabledDates matches it; a date on minDate's calendar day is not disabled
\* by the lower bound and a date on maxDate's calendar day is not disabled by
\* the upper bound, at any time of day.
C10_BoundsFirst ==
  ddResult.done =>
    /\ (ddQuery.minDate # Undef /\ DayOf(ddQuery.date) < DayOf(ddQuery.minDate))
         => ddResult.disabled
    /\ (ddQuery.maxDate # Undef /\ DayOf(ddQuery.date) > DayOf(ddQuery.maxDate))
         => ddResult.disabled
    /\ ( /\ ddQuery.minDate # Undef
         /\ DayOf(ddQuery.date) = DayOf(ddQuery.minDate)
         /\ ddQuery.maxDate = Undef \/ DayOf(ddQuery.date) <= DayOf(ddQuery.maxDate) )
         => ddResult.disabled = DDRulesVerdict
    /\ ( /\ ddQuery.maxDate # Undef
         /\ DayOf(ddQuery.date) = DayOf(ddQuery.maxDate)
         /\ ddQuery.minDate = Undef \/ DayOf(ddQuery.date) >= DayOf(ddQuery.minDate) )
         => ddResult.disabled = DDRulesVerdict

\* a date below minDate's day that enabledDates matches
C10_Witness ==
  /\ ddResult.done
  /\ ddQuery.minDate # Undef
  /\ DayOf(ddQuery.date) < DayOf(ddQuery.minDate)
  /\ ddQuery.enabledDates.kind # "none"
  /\ DDMatches(ddQuery.enabledDates)
  /\ ddResult.disabled

\* the grid of the call has been built
GridBuilt == engineCall.fn = "getMonthDays" /\ engineResult.done
\* the header of the call has been built
HeaderBuilt == engineCall.fn = "getMonthDays" /\ engineResult.headerDone
\* leading offset plus the days of the reference month
GridNeed == engineResult.info.prevMonthOffset + engineCall.ref.days

\* C11: with showOutsideDays the grid built from getDaysInMonth's result has
\* exactly 35 or 42 cells, never fewer than prevMonthOffset plus the days of
\* the month, and 42 only when that sum exceeds 35 (every calendar, every
\* firstDayOfWeek).
C11_GridIs35Or42 ==
  (GridBuilt /\ engineCall.showOutsideDays) =>
    /\ Len(engineResult.days) \in {35, 42}
    /\ Len(engineResult.days) >= GridNeed
    /\ Len(engineResult.days) = 42 => GridNeed > 35
    /\ \A i \in 1..Len(engineResult.days) : ~engineResult.days[i].isNull

C11_Witness ==
  /\ GridBuilt
  /\ engineCall.showOutsideDays
  /\ engineCall.firstDayOfWeek > 0
  /\ GridNeed = 36
  /\ Len(engineResult.days) = 42

\* C12: without showOutsideDays the grid is prevMonthOffset empty slots
\* followed by one real cell per day of the month and nothing after them.
C12_NullsThenMonth ==
  (GridBuilt /\ ~engineCall.showOutsideDays) =>
    /\ Len(engineResult.days) = GridNeed
    /\ \A i \in 1..Len(engineResult.days) :
         IF i <= engineResult.info.prevMonthOffset
         THEN engineResult.days[i].isNull
         ELSE /\ ~engineResult.days[i].isNull
              /\ engineResult.days[i].isCurrentMonth
              /\ engineResult.days[i].number = i - engineResult.info.prevMonthOffset

C12_Witness ==
  /\ GridBuilt
  /\ ~engineCall.showOutsideDays
  /\ engineResult.info.prevMonthOffset > 0
  /\ engineResult.days[1].isNull
  /\ ~engineResult.days[Len(engineResult.days)].isNull

\* C13: for every calendar and every firstDayOfWeek the offset returned by
\* getDaysInMonth is (weekday of day 1 - firstDayOfWeek + 7) mod 7, a value
\* in 0..6.
C13_OffsetRotated ==
  GridBuilt =>
    /\ engineResult.info.prevMonthOffset \in 0..6
    /\ engineResult.info.prevMonthOffset =
         (weekday(engineCall.ref.first) - engineCall.firstDayOfWeek + 7) % 7

\* C14: getWeekdays returns seven entries and the entry in column i is the
\* weekday (firstDayOfWeek + i) mod 7: Saturday first for 6, Sunday first for 0.
C14_HeaderRotated ==
  HeaderBuilt =>
    /\ Len(engineResult.weekdays) = 7
    /\ \A i \in 0..6 :
         engineResult.weekdays[i + 1].index = (engineCall.firstDayOfWeek + i) % 7
    /\ engineCall.firstDayOfWeek = 6 =>
         [i \in 1..7 |-> engineResult.weekdays[i].index] = << 6, 0, 1, 2, 3, 4, 5 >>
    /\ engineCall.firstDayOfWeek = 0 =>
         [i \in 1..7 |-> engineResult.weekdays[i].index] = << 0, 1, 2, 3, 4, 5, 6 >>

C14_Witness ==
  /\ HeaderBuilt
  /\ engineCall.firstDayOfWeek = 6
  /\ engineResult.weekdays[1].index = 6
  /\ engineResult.weekdays[2].index = 0
  /\ engineResult.weekdays[7].index = 5

\* C15: for every calendar and every firstDayOfWeek a cell is flagged start
\* of week exactly when its weekday is firstDayOfWeek, and end of week
\* exactly when its weekday is (firstDayOfWeek + 6) mod 7.
C15_WeekEdgeFlags ==
  GridBuilt =>
    \A i \in 1..Len(engineResult.days) :
      ~engineResult.days[i].isNull =>
        /\ engineResult.days[i].isStartOfWeek <=>
             (weekday(engineResult.days[i].date) = engineCall.firstDayOfWeek)
        /\ engineResult.days[i].isEndOfWeek <=>
             (weekday(engineResult.days[i].date)
                = (engineCall.firstDayOfWeek + 6) % 7)

\* the month test of the call has been made
MonthTested == engineCall.fn = "isMonthDisabled" /\ engineResult.done
\* the month lies on the wrong side of the bound, in the bound's year
BeforeMin ==
  /\ engineCall.minDate # Undef
  /\ engineCall.date \div 12 = engineCall.minDate \div 12
  /\ engineCall.month < engineCall.minDate % 12
AfterMax ==
  /\ engineCall.maxDate # Undef
  /\ engineCall.date \div 12 = engineCall.maxDate \div 12
  /\ engineCall.month > engineCall.maxDate % 12

\* C16: isMonthDisabled is true exactly when minDate is set, the date and
\* minDate share the year and the month is before minDate's month, or maxDate
\* is set, the date and maxDate share the year and the month is after
\* maxDate's month.
C16_MonthDisabledSameYearOnly ==
  MonthTested => (engineResult.disabled <=> (BeforeMin \/ AfterMax))

C16_Witness ==
  /\ MonthTested
  /\ engineCall.minDate # Undef
  /\ engineCall.maxDate # Undef
  /\ engineCall.date \div 12 # engineCall.minDate \div 12
  /\ engineCall.month < engineCall.minDate % 12
  /\ AfterMax
  /\ engineResult.disabled

\* getDayjs has returned for the call
DayjsReturned == engineCall.fn = "getDayjs" /\ engineResult.done

\* C17: for the islamic calendar getDayjs applied to its own result gives
\* the same value: same year, month, day, weekday, hour and minute.
C17_IslamicIdempotent ==
  (DayjsReturned /\ engineCall.calendar = "islamic" /\ engineResult.againDone) =>
    /\ engineResult.again.kind = "date"
    /\ engineResult.again.ymd = engineResult.value.ymd
    /\ engineResult.again.W = engineResult.value.W
    /\ engineResult.again.H = engineResult.value.H
    /\ engineResult.again.m = engineResult.value.m

C17_Witness ==
  /\ DayjsReturned
  /\ engineCall.calendar = "islamic"
  /\ engineCall.date.kind = "date"
  /\ engineCall.date.C = "gregory"
  /\ engineResult.value.C = "islamic"
  /\ engineResult.value.ymd # engineCall.date.ymd
  /\ engineResult.againDone
  /\ engineResult.again = engineResult.value

C18_SameResultUnderInterleaving ==
  (engineCall.fn = "getMonthsArray" /\ engineResult.done) =>
    engineResult.names = engineResult.first[engineCall.caller]

\* a pick in single mode has just been reported
SinglePicked == mode = "single" /\ selectedDate # Undef /\ reported.kind = "single"

\* C20: a pick in single mode reports the picked date, at the start of its
\* day when timePicker is off and with its time of day unchanged when
\* timePicker is on.
C20_SinglePickTime ==
  SinglePicked =>
    /\ DayOf(reported.date) = DayOf(selectedDate)
    /\ ~timePicker => TodOf(reported.date) = 0
    /\ timePicker => TodOf(reported.date) = TodOf(selectedDate)

C20_Witness ==
  /\ SinglePicked
  /\ ~timePicker
  /\ TodOf(selectedDate) # 0
  /\ reported.date = DayOf(selectedDate) * TicksPerDay

\* C22: with outside days shown getMonthDays emits prevMonthOffset cells
\* numbered prevMonthDays - prevMonthOffset + 1 .. prevMonthDays (not of the
\* month), then the cells 1 .. daysInCurrentMonth (of the month), then the
\* cells 1 .. daysInNextMonth (not of the month); the k-th cell has
\* dayOfMonth k.
C22_EmitOrder ==
  (GridBuilt /\ engineCall.showOutsideDays) =>
    LET off == engineResult.info.prevMonthOffset
        dim == engineCall.ref.days
        cells == engineResult.days
    IN  \A k \in 1..Len(cells) :
          /\ cells[k].dayOfMonth = k
          /\ k <= off =>
               /\ cells[k].number = engineCall.ref.prevDays - off + k
               /\ ~cells[k].isCurrentMonth
          /\ (k > off /\ k <= off + dim) =>
               /\ cells[k].number = k - off
               /\ cells[k].isCurrentMonth
          /\ k > off + dim =>
               /\ cells[k].number = k - off - dim
               /\ ~cells[k].isCurrentMonth

C22_Witness ==
  /\ GridBuilt
  /\ engineCall.showOutsideDays
  /\ engineResult.info.prevMonthOffset > 1
  /\ engineResult.info.daysInNextMonth > 1
  /\ engineResult.days[1].number = engineCall.ref.prevDays
                                     - engineResult.info.prevMonthOffset + 1
  /\ engineResult.days[Len(engineResult.days)].number
       = engineResult.info.daysInNextMonth

\* C28: header and grid agree on the columns: for every calendar, every
\* firstDayOfWeek and every reference month the weekday of the real cell at
\* position p is the weekday index of the header entry of column
\* (p - 1) mod 7.
C28_HeaderGridAgree ==
  (GridBuilt /\ HeaderBuilt) =>
    \A p \in 1..Len(engineResult.days) :
      ~engineResult.days[p].isNull =>
        engineResult.days[p].date % 7
          = engineResult.weekdays[((p - 1) % 7) + 1].index

\* the year pages of the call have been computed
YearsListed == engineCall.fn = "getYearRange" /\ engineResult.done

\* C29: for every year y >= 0 getYearRange(y) is 12 consecutive ascending
\* years, the first a multiple of 12, with y among them; two years get the
\* same page exactly when their quotients by 12 are equal.
C29_YearPage ==
  YearsListed =>
    /\ Len(engineResult.years) = 12
    /\ engineResult.years[1] % 12 = 0
    /\ \A i \in 1..11 : engineResult.years[i + 1] = engineResult.years[i] + 1
    /\ \E i \in 1..12 : engineResult.years[i] = engineCall.year
    /\ (engineResult.years = engineResult.otherYears)
         <=> (engineCall.year \div 12 = engineCall.other \div 12)

C29_Witness ==
  /\ YearsListed
  /\ engineCall.year = 12
  /\ engineCall.other = 23
  /\ engineResult.years[1] = 12
  /\ engineResult.years = engineResult.otherYears

\* C23: starting from an empty range, with every notification fed back as
\* the next selection, no notification carries an endDate while its
\* startDate is undefined.
C23_NoEndWithoutStart ==
  (mode = "range" /\ reported.kind = "range") =>
    ~(reported.startDate = Undef /\ reported.endDate # Undef)

\* no two entries of the stored list lie on one day
NoDayTwice ==
  \A i, j \in 1..Len(dates) : i # j => DayOf(dates[i]) # DayOf(dates[j])
\* a second pick of the day just picked, made once the notification has been
\* fed back, reports the list that is stored now
SecondPickRestores ==
  (selectedDate # Undef /\ reported.kind = "multiple") =>
    \A again \in CellDates :
      DayOf(again) = DayOf(selectedDate) =>
        LET second == multipleSelect(reported.dates, again, max)
        IN  second.kind = "multiple" /\ second.dates = dates

\* C24: in multiple mode, starting from an empty selection with every
\* notification fed back, the selection never holds two entries on one day
\* and, when max is configured, never more than max entries; picking a day
\* twice in a row restores the selection held before the first pick.
C24_MultipleInvariants ==
  mode = "multiple" =>
    /\ NoDayTwice
    /\ max # Undef => Len(dates) <= max
    /\ SecondPickRestores

\* C24, amended: the limit holds when max is configured to a value other
\* than 0, which the test 'max && ...' takes for no limit.
C24_MultipleInvariantsNonZeroMax ==
  mode = "multiple" =>
    /\ NoDayTwice
    /\ (max # Undef /\ max # 0) => Len(dates) <= max
    /\ SecondPickRestores

C24_Witness ==
  /\ mode = "multiple"
  /\ max = 2
  /\ Len(dates) = 2
  /\ reported.kind = "multiple"
  /\ reported.change = "removed"
  /\ Len(reported.dates) = 1

C21_ArgumentsUntouched ==
  (engineCall.fn = "removeTime" /\ engineResult.done) =>
    /\ engineResult.selectedDate = engineCall.selectedDate
    /\ engineResult.startDate = engineCall.startDate
    /\ engineResult.endDate = engineCall.endDate

\* C26: after a mount with props month = m (0..11, 0 included) and year = y
\* (y >= 0), once the mount effects have run, the displayed currentDate has
\* month m and year y.
C26_MountShowsMonthYear ==
  (engineCall.fn = "mount" /\ engineResult.done
     /\ engineCall.month # Undef /\ engineCall.year # Undef) =>
    /\ engineResult.currentDate % 12 = engineCall.month
    /\ engineResult.currentDate \div 12 = engineCall.year

\* C25: a pick that follows a change of the calendar prop or of the onChange
\* prop is processed with the calendar of the current props and reported to
\* the onChange of the current props.  The memoized handler is not renewed
\* by those two props, so the formula is violated.
C25_PickUsesCurrentProps ==
  invoked.by = "pick" =>
    /\ invoked.callee = invoked.prop
    /\ invoked.calendar = invoked.propCalendar

\* C30: when the onChange prop is not supplied no event makes the picker
\* call onChange.  The selection effect calls it without testing it after
\* a change of timeZone, so the formula is violated.
C30_NoCallWithoutOnChange ==
  invoked.prop = "none" => invoked.callee = "none"

====
